---- MODULE Spec2Model ----
(***************************************************************************)
(* Fixed-capacity typed arrays (src/ds/array/array.py) and the             *)
(* n-dimensional arrays stored as a GenericArray of 1-D rows               *)
(* (src/ds/array/multi_dim_array.py).                                      *)
(*                                                                         *)
(* Python values are records tagged by their type:                         *)
(*   [t |-> "none"]                      None                              *)
(*   [t |-> "int",   v |-> big]          int; big = [hi, lo] is the       *)
(*                                       integer hi * 2^16 + lo           *)
(*   [t |-> "float", k, m |-> big, e]    a float: k = "fin" is m / 10^e    *)
(*                                       with e minimal; k = "negzero",    *)
(*                                       "inf", "-inf", "nan" the others   *)
(*   [t |-> "str",   s |-> <<cp, ..>>]   str, a sequence of code points    *)
(*   [t |-> "bytes", b |-> <<b, ..>>]    bytes                             *)
(*   [t |-> "tuple", s |-> <<n, ..>>]    a tuple of small ints             *)
(*   [t |-> "list",  s |-> <<n, ..>>]    a list of small ints              *)
(*   [t |-> "null"]                      an unset py_object slot           *)
(*   [t |-> "addr",  v |-> big]          a raw address in a c_char_p slot  *)
(*   [t |-> "class", name |-> kind]      one of the four array classes     *)
(* Integers are kept as two 16-bit-based limbs so that values beyond       *)
(* 2^31 (which c_int32 truncates) can be written down.                     *)
(***************************************************************************)
EXTENDS Integers, Sequences, FiniteSets, TLC

VARIABLES
    arr,      \* the 1-D array object under test, or NoObj before construction
    last,     \* the call on arr under examination: operation, arguments, outcome
    cycle,    \* indices yielded since iteration was last started on arr
    md,       \* the n-D array object under test, or NoObj
    mlast,    \* the call on md under examination
    fshape,   \* flattening study: the shape
    findex,   \* flattening study: the coordinate tuple
    fstep,    \* flattening study: loop variable i of __calculate_pseudo_index
    fgroup,   \* flattening study: group_elem
    fpseudo   \* flattening study: pseudo_index

vars == <<arr, last, cycle, md, mlast, fshape, findex, fstep, fgroup, fpseudo>>

---------------------------------------------------------------------------
(* Bounds of the model. *)

MaxLen == 2        \* largest 1-D array constructed
MaxRank == 3       \* longest shape tuple offered to the n-D constructor
MaxDim == 2        \* largest single dimension of an n-D shape
MaxCells == 4      \* most elements of an n-D array constructed
MaxFlatRank == 3   \* longest shape in the flattening study
MaxFlatDim == 3    \* largest dimension in the flattening study

---------------------------------------------------------------------------
(* Integers of arbitrary size: hi * 2^16 + lo with 0 <= lo < 2^16. *)

Limb == 2 ^ 16
Half == 2 ^ 15

Big(n) == [hi |-> n \div Limb, lo |-> n % Limb]

BigMulAdd(b, k, d) ==
    LET lo2 == b.lo * k + d
    IN  [hi |-> b.hi * k + (lo2 \div Limb), lo |-> lo2 % Limb]

BigNeg(b) ==
    IF b.lo = 0 THEN [hi |-> 0 - b.hi, lo |-> 0]
    ELSE [hi |-> 0 - b.hi - 1, lo |-> Limb - b.lo]

BigIsNeg(b) == b.hi < 0

BigIsZero(b) == b.hi = 0 /\ b.lo = 0

\* floor(b / p) for a small positive p
BigDivFloor(b, p) ==
    LET lo2 == (b.hi % p) * Limb + b.lo
    IN  [hi |-> b.hi \div p, lo |-> lo2 \div p]

BigMod(b, p) == ((b.hi % p) * Limb + b.lo) % p

\* b / p rounded towards zero, as int() rounds a float
BigDivTrunc(b, p) ==
    IF BigIsNeg(b) THEN BigNeg(BigDivFloor(BigNeg(b), p)) ELSE BigDivFloor(b, p)

\* 0 <= b < n for a small n
BigInRange(b, n) == b.hi = 0 /\ b.lo < n

\* the small integer b stands for (only when it is small)
BigSmall(b) == b.hi * Limb + b.lo

\* b / 10^e rounded towards zero, a digit at a time
RECURSIVE BigTruncPow10(_, _)
BigTruncPow10(b, e) ==
    IF e = 0 THEN b ELSE BigTruncPow10(BigDivTrunc(b, 10), e - 1)

\* floor(b / 10^e) for b >= 0, a digit at a time
RECURSIVE BigFloorPow10(_, _)
BigFloorPow10(b, e) ==
    IF e = 0 THEN b ELSE BigFloorPow10(BigDivFloor(b, 10), e - 1)

---------------------------------------------------------------------------
(* Python values. *)

NoneV == [t |-> "none"]
NullV == [t |-> "null"]
IntV(n) == [t |-> "int", v |-> Big(n)]
IntB(b) == [t |-> "int", v |-> b]
StrV(s) == [t |-> "str", s |-> s]
BytesV(b) == [t |-> "bytes", b |-> b]
TupleV(s) == [t |-> "tuple", s |-> s]
ListV(s) == [t |-> "list", s |-> s]

\* the finite float m / 10^e, written with the least exponent e >= 0
RECURSIVE FloatB(_, _)
FloatB(m, e) ==
    IF e < 0 THEN FloatB(BigMulAdd(m, 10, 0), e + 1)
    ELSE IF e > 0 /\ BigMod(m, 10) = 0 THEN FloatB(BigDivFloor(m, 10), e - 1)
    ELSE [t |-> "float", k |-> "fin", m |-> m, e |-> e]

\* the floats that are no quotient: -0.0 ("negzero"), inf, -inf, nan
FloatSpecial(k) == [t |-> "float", k |-> k, m |-> Big(0), e |-> 0]

FloatV(n, e) == FloatB(Big(n), e)

\* the outcome of a call: the exception raised ("ok" when none), its message,
\* the value returned, and the receiver after the call
Ok(ret, obj) == [err |-> "ok", msg |-> "", ret |-> ret, obj |-> obj]
Raise(exc, msg, obj) == [err |-> exc, msg |-> msg, ret |-> NoneV, obj |-> obj]

---------------------------------------------------------------------------
(* The conversions int(), float(), str.encode, bytes.decode and the        *)
(* stores into ctypes arrays.  Text is limited to code points below 2048;  *)
(* finite numbers to zero and magnitudes below 2^46 with at most 14        *)
(* significant decimal digits, where distinct quotients m / 10^e are       *)
(* distinct doubles; -0.0, the infinities and nan are told apart by k.     *)

\* the characters the number parsers skip around a literal (Py_ISSPACE)
AsciiSpace == {9, 10, 11, 12, 13, 32}

\* the white space beyond ASCII (str.isspace), below 2048
UnicodeSpace == {133, 160}

\* the zero of each block of decimal digits (category Nd) below 2048: ASCII,
\* Arabic-Indic, Extended Arabic-Indic, NKo
DigitZeros == {48, 1632, 1776, 1984}

IsDecimal(c) == \E z \in DigitZeros : c \in z..(z + 9)

DecimalValue(c) == c - (CHOOSE z \in DigitZeros : c \in z..(z + 9))

\* what int() and float() make of a str before parsing it: ASCII is kept, a
\* space beyond ASCII becomes ' ', a decimal digit its ASCII digit, and
\* anything else ends the text with a '?'
RECURSIVE ToAscii(_)
ToAscii(s) ==
    IF s = <<>> THEN <<>>
    ELSE IF Head(s) <= 127 THEN <<Head(s)>> \o ToAscii(Tail(s))
    ELSE IF Head(s) \in UnicodeSpace THEN <<32>> \o ToAscii(Tail(s))
    ELSE IF IsDecimal(Head(s)) THEN <<48 + DecimalValue(Head(s))>> \o ToAscii(Tail(s))
    ELSE <<63>>

RECURSIVE LStrip(_)
LStrip(s) == IF s # <<>> /\ Head(s) \in AsciiSpace THEN LStrip(Tail(s)) ELSE s

RECURSIVE RStrip(_)
RStrip(s) ==
    IF s # <<>> /\ s[Len(s)] \in AsciiSpace THEN RStrip(SubSeq(s, 1, Len(s) - 1))
    ELSE s

\* the literal int() and float() parse in a str or bytes value
NumberText(value) ==
    IF value.t = "str" THEN RStrip(LStrip(ToAscii(value.s)))
    ELSE RStrip(LStrip(value.b))

IsDigit(c) == c \in 48..57

HasSign(s) == Len(s) > 0 /\ s[1] \in {43, 45}

Unsigned(s) == IF HasSign(s) THEN Tail(s) ELSE s

RECURSIVE DigitsValue(_)
DigitsValue(s) ==
    IF s = <<>> THEN Big(0)
    ELSE BigMulAdd(DigitsValue(SubSeq(s, 1, Len(s) - 1)), 10, s[Len(s)] - 48)

Signed(s, b) == IF Len(s) > 0 /\ s[1] = 45 THEN BigNeg(b) ELSE b

WithoutUnderscores(s) == SelectSeq(s, LAMBDA c : c # 95)

\* digits with single underscores between them
IsDigitGroup(u) ==
    /\ Len(u) > 0
    /\ IsDigit(u[1])
    /\ IsDigit(u[Len(u)])
    /\ \A i \in 1..Len(u) : IsDigit(u[i]) \/ u[i] = 95
    /\ \A i \in 1..(Len(u) - 1) : ~(u[i] = 95 /\ u[i + 1] = 95)

\* a base-10 integer literal: an optional sign, then digits
IsIntLiteral(s) == IsDigitGroup(Unsigned(s))

IntLiteralValue(s) == Signed(s, DigitsValue(WithoutUnderscores(Unsigned(s))))

\* every underscore of a float literal stands between two digits
UnderscoresBetweenDigits(s) ==
    \A i \in 1..Len(s) :
        s[i] = 95 => /\ i > 1
                     /\ i < Len(s)
                     /\ IsDigit(s[i - 1])
                     /\ IsDigit(s[i + 1])

AsciiLower(s) == [i \in 1..Len(s) |-> IF s[i] \in 65..90 THEN s[i] + 32 ELSE s[i]]

\* "inf", "infinity", "nan", in any case
IsInfWord(u) ==
    AsciiLower(u) \in {<<105, 110, 102>>, <<105, 110, 102, 105, 110, 105, 116, 121>>}

IsNanWord(u) == AsciiLower(u) = <<110, 97, 110>>

\* where the exponent marker e or E stands in u (one past the end when absent)
ExpAt(u) ==
    IF \E i \in 1..Len(u) : u[i] \in {69, 101}
    THEN CHOOSE i \in 1..Len(u) :
             /\ u[i] \in {69, 101}
             /\ \A j \in 1..(i - 1) : u[j] \notin {69, 101}
    ELSE Len(u) + 1

Mantissa(u) == SubSeq(u, 1, ExpAt(u) - 1)

Exponent(u) == SubSeq(u, ExpAt(u) + 1, Len(u))

Dots(s) == {i \in 1..Len(s) : s[i] = 46}

WithoutDots(s) == SelectSeq(s, LAMBDA c : c # 46)

\* digits with at most one point among them, and at least one digit
IsMantissa(q) ==
    /\ Cardinality(Dots(q)) <= 1
    /\ Len(WithoutDots(q)) > 0
    /\ \A i \in 1..Len(q) : IsDigit(q[i]) \/ q[i] = 46

\* an optional sign, then digits
IsExponent(x) ==
    /\ Len(Unsigned(x)) > 0
    /\ \A i \in 1..Len(Unsigned(x)) : IsDigit(Unsigned(x)[i])

\* the digits after the point
FractionDigits(q) == IF Dots(q) = {} THEN 0 ELSE Len(q) - (CHOOSE i \in Dots(q) : TRUE)

ExponentValue(x) ==
    IF x = <<>> THEN 0 ELSE BigSmall(Signed(x, DigitsValue(Unsigned(x))))

\* a decimal literal (after the underscores are taken out): an optional
\* sign, a mantissa, an optional exponent
IsDecimalLiteral(p) ==
    /\ IsMantissa(Mantissa(Unsigned(p)))
    /\ ExpAt(Unsigned(p)) <= Len(Unsigned(p)) => IsExponent(Exponent(Unsigned(p)))

DecimalLiteralValue(p) ==
    IF BigIsZero(DigitsValue(WithoutDots(Mantissa(Unsigned(p)))))
    THEN IF Signed(p, Big(1)) = Big(1) THEN FloatB(Big(0), 0)
         ELSE FloatSpecial("negzero")
    ELSE FloatB(Signed(p, DigitsValue(WithoutDots(Mantissa(Unsigned(p))))),
                FractionDigits(Mantissa(Unsigned(p)))
                    - ExponentValue(Exponent(Unsigned(p))))

IsFloatLiteral(s) ==
    /\ UnderscoresBetweenDigits(s)
    /\ \/ IsInfWord(Unsigned(WithoutUnderscores(s)))
       \/ IsNanWord(Unsigned(WithoutUnderscores(s)))
       \/ IsDecimalLiteral(WithoutUnderscores(s))

FloatLiteralValue(s) ==
    IF IsNanWord(Unsigned(WithoutUnderscores(s))) THEN FloatSpecial("nan")
    ELSE IF IsInfWord(Unsigned(WithoutUnderscores(s)))
    THEN FloatSpecial(IF Signed(s, Big(1)) = Big(1) THEN "inf" ELSE "-inf")
    ELSE DecimalLiteralValue(WithoutUnderscores(s))

\* int(x) of a float x
IntOfFloat(x) ==
    CASE x.k = "fin" -> Ok(IntB(BigTruncPow10(x.m, x.e)), NoneV)
      [] x.k = "negzero" -> Ok(IntV(0), NoneV)
      [] x.k = "nan" -> Raise("ValueError", "cannot convert float NaN to integer", NoneV)
      [] OTHER -> Raise("OverflowError", "cannot convert float infinity to integer",
                        NoneV)

\* int(text) of a str or bytes literal
IntOfText(s) ==
    IF IsIntLiteral(s) THEN Ok(IntB(IntLiteralValue(s)), NoneV)
    ELSE Raise("ValueError", "invalid literal for int()", NoneV)

\* float(text) of a str or bytes literal
FloatOfText(s) ==
    IF IsFloatLiteral(s) THEN Ok(FloatLiteralValue(s), NoneV)
    ELSE Raise("ValueError", "could not convert string to float", NoneV)

\* int(value)
PyInt(value) ==
    CASE value.t = "int" -> Ok(value, NoneV)
      [] value.t = "float" -> IntOfFloat(value)
      [] value.t \in {"str", "bytes"} -> IntOfText(NumberText(value))
      [] OTHER -> Raise("TypeError", "int() argument must be a string or a number", NoneV)

\* float(value)
PyFloat(value) ==
    CASE value.t = "int" -> Ok(FloatB(value.v, 0), NoneV)
      [] value.t = "float" -> Ok(value, NoneV)
      [] value.t \in {"str", "bytes"} -> FloatOfText(NumberText(value))
      [] OTHER -> Raise("TypeError", "float() argument must be a string or a number", NoneV)

\* bool(value), as the "if value" of set_all_to tests it
Truthy(value) ==
    CASE value.t = "none" -> FALSE
      [] value.t = "int" -> ~BigIsZero(value.v)
      [] value.t = "float" -> ~(value.k = "negzero" \/ (value.k = "fin" /\ BigIsZero(value.m)))
      [] value.t = "str" -> Len(value.s) > 0
      [] value.t = "bytes" -> Len(value.b) > 0
      [] value.t \in {"tuple", "list"} -> Len(value.s) > 0
      [] OTHER -> TRUE

\* one code point as UTF-8
Utf8Char(c) == IF c < 128 THEN <<c>> ELSE <<192 + (c \div 64), 128 + (c % 64)>>

\* str.encode('utf-8')
RECURSIVE Utf8Encode(_)
Utf8Encode(s) == IF s = <<>> THEN <<>> ELSE Utf8Char(Head(s)) \o Utf8Encode(Tail(s))

\* bytes.decode() of well-formed UTF-8
RECURSIVE Utf8Decode(_)
Utf8Decode(b) ==
    IF b = <<>> THEN <<>>
    ELSE IF b[1] < 128 THEN <<b[1]>> \o Utf8Decode(Tail(b))
    ELSE <<(b[1] - 192) * 64 + (b[2] - 128)>> \o Utf8Decode(Tail(Tail(b)))

\* what a c_char_p slot holds of the bytes stored into it: a C string ends at
\* its first zero byte
RECURSIVE CString(_)
CString(b) ==
    IF b = <<>> \/ b[1] = 0 THEN <<>> ELSE <<b[1]>> \o CString(Tail(b))

\* c_int32 keeps the low 32 bits, as a signed number
Wrap32(b) == [hi |-> ((b.hi + Half) % Limb) - Half, lo |-> b.lo]

\* a c_char_p slot given an integer holds it as a raw address; address 0 is
\* the null pointer, which reads as None
AddrV(b) == IF BigIsZero(b) THEN NoneV ELSE [t |-> "addr", v |-> b]

\* the value a ctypes array of the given element type keeps when `value` is
\* stored into a slot, or the TypeError ctypes raises
CStore(kind, value) ==
    CASE kind = "gen" -> Ok(value, NoneV)
      [] kind = "int" /\ value.t = "int" -> Ok(IntB(Wrap32(value.v)), NoneV)
      [] kind = "float" /\ value.t \in {"int", "float"} -> PyFloat(value)
      [] kind = "char" /\ value.t = "bytes" -> Ok(BytesV(CString(value.b)), NoneV)
      [] kind = "char" /\ value.t = "none" -> Ok(NoneV, NoneV)
      [] kind = "char" /\ value.t = "int" -> Ok(AddrV(value.v), NoneV)
      [] OTHER -> Raise("TypeError", "wrong type", NoneV)

\* what reading a slot gives: an unset py_object raises ValueError; a
\* c_char_p holding a raw address is dereferenced, which is undefined
\* behaviour (a crash or arbitrary bytes), marked here by the outcome
\* "undefined"; every other slot yields its value
CRead(v, obj) ==
    CASE v.t = "null" -> Raise("ValueError", "PyObject is NULL", obj)
      [] v.t = "addr" -> Raise("undefined", "read through a raw address", obj)
      [] OTHER -> Ok(v, obj)

\* a slot of a freshly allocated ctypes array
CZero(kind) ==
    CASE kind = "gen" -> NullV
      [] kind = "int" -> IntV(0)
      [] kind = "float" -> FloatV(0, 0)
      [] kind = "char" -> NoneV

---------------------------------------------------------------------------
(* array.py: BaseArray.  An array object is the record                     *)
(*   [t |-> "array", kind, len, elems, cur]                                *)
(* kind names the subclass (and so the ctypes element type), len is        *)
(* __array_len, elems is __array_elems (slot i of the code is elems[i+1]), *)
(* cur is __iter_cur_index.                                                *)

NoObj == [t |-> "noobj"]

\* the test 0 <= index < self.__array_len; it raises TypeError when index is
\* not a number
IndexComparable(index) == index.t \in {"int", "float"}

IndexInRange(a, index) ==
    IF index.t = "int" THEN BigInRange(index.v, a.len)
    ELSE IF index.k = "fin"
    THEN /\ ~BigIsNeg(index.m)
         /\ BigInRange(BigFloorPow10(index.m, index.e), a.len)
    ELSE index.k = "negzero" /\ 0 < a.len

\* self.__array_elems[index] of a ctypes array
CLoad(a, index) ==
    IF index.t # "int" THEN Raise("TypeError", "indices must be integers", a)
    ELSE CRead(a.elems[BigSmall(index.v) + 1], a)

BaseArray_getitem(a, index) ==
    IF ~IndexComparable(index)
    THEN Raise("ValueError", "Invalid index. It must be a positive integer", a)
    ELSE IF ~IndexInRange(a, index)
    THEN Raise("IndexError", "Index out of range", a)
    ELSE CLoad(a, index)

BaseArray_setitem(a, index, value) ==
    IF ~IndexComparable(index)
    THEN Raise("ValueError", "Invalid index. It must be a positive integer", a)
    ELSE IF ~IndexInRange(a, index)
    THEN Raise("IndexError", "Index out of range", a)
    ELSE IF index.t # "int"
    THEN Raise("TypeError", "indices must be integers", a)
    ELSE LET Stored(s) ==
                 IF s.err # "ok" THEN Raise(s.err, s.msg, a)
                 ELSE Ok(NoneV, [a EXCEPT !.elems[BigSmall(index.v) + 1] = s.ret])
         IN  Stored(CStore(a.kind, value))

BaseArray_len(a) == Ok(IntV(a.len), a)

BaseArray_iter(a) == Ok(a, a)

BaseArray_next(a) ==
    IF a.cur < a.len
    THEN IF CRead(a.elems[a.cur + 1], a).err # "ok"
         THEN CRead(a.elems[a.cur + 1], a)
         ELSE Ok(a.elems[a.cur + 1], [a EXCEPT !.cur = a.cur + 1])
    ELSE Raise("StopIteration", "", [a EXCEPT !.cur = 0])

\* for i in range(self.__array_len): self.__array_elems[i] = value.  Every
\* pass stores the same value, so the first store decides whether the loop
\* raises (before any slot is written) or writes all the slots.
StoreAll(a, value) ==
    LET Stored(s) ==
            IF a.len = 0 THEN Ok(NoneV, a)
            ELSE IF s.err # "ok" THEN Raise(s.err, s.msg, a)
            ELSE Ok(NoneV, [a EXCEPT !.elems = [i \in 1..a.len |-> s.ret]])
    IN  Stored(CStore(a.kind, value))

BaseArray_reset(a, default) == StoreAll(a, default)

BaseArray_set_all_to(a, value) == StoreAll(a, value)

---------------------------------------------------------------------------
(* array.py: GenericArray, IntArray, FloatArray, CharArray. *)

\* a reset of the opaque variant that passes the caller's default on (a faulty
\* variant: the code overwrites it with None first)
GenericArray_reset_passing(a, default) == BaseArray_reset(a, default)

GenericArray_reset(a, default) == BaseArray_reset(a, NoneV)

IntArray_reset(a, default) == BaseArray_reset(a, IntV(0))

FloatArray_reset(a, default) == BaseArray_reset(a, FloatV(0, 0))

CharArray_reset(a, default) == BaseArray_reset(a, BytesV(Utf8Encode(<<>>)))

Array_reset(a, default) ==
    CASE a.kind = "gen" -> GenericArray_reset(a, default)
      [] a.kind = "int" -> IntArray_reset(a, default)
      [] a.kind = "float" -> FloatArray_reset(a, default)
      [] a.kind = "char" -> CharArray_reset(a, default)

\* the four __init__ methods: the assertion on size, the ctypes array,
\* BaseArray.__init__ and the closing reset
Array_init(kind, size) ==
    IF ~(size.t = "int" /\ ~BigIsNeg(size.v) /\ ~BigIsZero(size.v))
    THEN Raise("AssertionError", "Invalid array size provided", NoObj)
    ELSE Array_reset([t |-> "array", kind |-> kind, len |-> BigSmall(size.v),
                      elems |-> [i \in 1..BigSmall(size.v) |-> CZero(kind)],
                      cur |-> 0], NoneV)

IntArray_setitem(a, index, value) ==
    LET Done(r) ==
            IF r.err = "ValueError" THEN Raise("ValueError", "Value must be an Integer", r.obj)
            ELSE r
        Converted(c) ==
            IF c.err = "ValueError" THEN Raise("ValueError", "Value must be an Integer", a)
            ELSE IF c.err # "ok" THEN Raise(c.err, c.msg, a)
            ELSE Done(BaseArray_setitem(a, index, c.ret))
    IN  Converted(PyInt(value))

FloatArray_setitem(a, index, value) ==
    LET Done(r) ==
            IF r.err = "ValueError" THEN Raise("ValueError", "Value must be a Decimal Number", r.obj)
            ELSE r
        Converted(c) ==
            IF c.err = "ValueError" THEN Raise("ValueError", "Value must be a Decimal Number", a)
            ELSE IF c.err # "ok" THEN Raise(c.err, c.msg, a)
            ELSE Done(BaseArray_setitem(a, index, c.ret))
    IN  Converted(PyFloat(value))

\* a character store that writes the first character before it tests the
\* length (a faulty variant: the code tests first)
CharArray_setitem_eager(a, index, value) ==
    IF value.t # "str" THEN Raise("TypeError", "Value should be single Character", a)
    ELSE IF Len(value.s) # 1
    THEN Raise("TypeError", "Value should be single Character",
               IF value.s = <<>> THEN a
               ELSE BaseArray_setitem(a, index,
                        BytesV(Utf8Encode(<<Head(value.s)>>))).obj)
    ELSE BaseArray_setitem(a, index, BytesV(Utf8Encode(value.s)))

CharArray_setitem(a, index, value) ==
    IF value.t # "str" THEN Raise("TypeError", "Value should be single Character", a)
    ELSE IF Len(value.s) # 1
    THEN Raise("TypeError", "Value should be single Character", a)
    ELSE BaseArray_setitem(a, index, BytesV(Utf8Encode(value.s)))

\* value.decode() of what a c_char_p slot returned
Decoded(r) ==
    IF r.err # "ok" THEN r
    ELSE IF r.ret.t # "bytes"
    THEN Raise("AttributeError", "object has no attribute 'decode'", r.obj)
    ELSE Ok(StrV(Utf8Decode(r.ret.b)), r.obj)

CharArray_getitem(a, index) == Decoded(BaseArray_getitem(a, index))

CharArray_next(a) == Decoded(BaseArray_next(a))

IntArray_set_all_to(a, default_value) ==
    LET Done(r) ==
            IF r.err = "ValueError" THEN Raise("ValueError", "Value must be an Integer", r.obj)
            ELSE r
        Converted(c) ==
            IF c.err = "ValueError" THEN Raise("ValueError", "Value must be an Integer", a)
            ELSE IF c.err # "ok" THEN Raise(c.err, c.msg, a)
            ELSE Done(BaseArray_set_all_to(a, c.ret))
    IN  Converted(PyInt(default_value))

FloatArray_set_all_to(a, default_value) ==
    LET Done(r) ==
            IF r.err = "ValueError" THEN Raise("ValueError", "Value must be a Decimal Number", r.obj)
            ELSE r
        Converted(c) ==
            IF c.err = "ValueError" THEN Raise("ValueError", "Value must be a Decimal Number", a)
            ELSE IF c.err # "ok" THEN Raise(c.err, c.msg, a)
            ELSE Done(BaseArray_set_all_to(a, c.ret))
    IN  Converted(PyFloat(default_value))

CharArray_set_all_to(a, default_value) ==
    IF Truthy(default_value) /\ (default_value.t # "str" \/ Len(default_value.s) # 1)
    THEN Raise("TypeError", "Value should be single Character", a)
    ELSE IF default_value.t # "str"
    THEN Raise("AttributeError", "object has no attribute 'encode'", a)
    ELSE BaseArray_set_all_to(a, BytesV(Utf8Encode(default_value.s)))

\* a[index], a[index] = value, next(a), a.set_all_to(value) on an array of any
\* of the four classes
Array_getitem(a, index) ==
    IF a.kind = "char" THEN CharArray_getitem(a, index) ELSE BaseArray_getitem(a, index)

Array_setitem(a, index, value) ==
    CASE a.kind = "gen" -> BaseArray_setitem(a, index, value)
      [] a.kind = "int" -> IntArray_setitem(a, index, value)
      [] a.kind = "float" -> FloatArray_setitem(a, index, value)
      [] a.kind = "char" -> CharArray_setitem(a, index, value)

Array_next(a) ==
    IF a.kind = "char" THEN CharArray_next(a) ELSE BaseArray_next(a)

Array_set_all_to(a, value) ==
    CASE a.kind = "gen" -> BaseArray_set_all_to(a, value)
      [] a.kind = "int" -> IntArray_set_all_to(a, value)
      [] a.kind = "float" -> FloatArray_set_all_to(a, value)
      [] a.kind = "char" -> CharArray_set_all_to(a, value)

---------------------------------------------------------------------------
(* multi_dim_array.py: BaseMultiDimensionalArray.  An n-D array object is  *)
(*   [t |-> "mdarray", cls, of_type, size, nd]                             *)
(* cls names the class of the object ("gen", "int", "float", "char"),      *)
(* of_type is __of_type as given (a str value), size is __size as given (a *)
(* tuple value), nd is __nd_array, a GenericArray whose slots hold the 1-D *)
(* row arrays.                                                             *)

\* int(a / b) for a >= 0, b > 0: the float quotient is exact below 2^53
IntOfQuotient(a, b) == a \div b

MD_is_valid_size(size) ==
    /\ size.t = "tuple"
    /\ Len(size.s) # 1
    /\ \A i \in 1..Len(size.s) : ~(size.s[i] < 1)

\* size[:-1]
AllButLast(q) == SubSeq(q, 1, Len(q) - 1)

RECURSIVE Product(_)
Product(q) == IF q = <<>> THEN 1 ELSE Head(q) * Product(Tail(q))

MD_get_total_number_of_1d_arrays(size) == Product(AllButLast(size.s))

\* the names "gen", "int", "float", "char" as str values
GenName == StrV(<<103, 101, 110>>)
IntName == StrV(<<105, 110, 116>>)
FloatName == StrV(<<102, 108, 111, 97, 116>>)
CharName == StrV(<<99, 104, 97, 114>>)

\* self.__of_type.lower() compared with "int", "float", "char" picks the
\* class of the rows.  Below 2048 only the ASCII capitals lower to an ASCII
\* letter alone, so the comparisons come out as with AsciiLower.  bytes
\* has lower() too, and its result equals no str: the rows are generic.
RowKind(of_type) ==
    IF of_type.t = "bytes" THEN "gen"
    ELSE CASE AsciiLower(of_type.s) = IntName.s -> "int"
           [] AsciiLower(of_type.s) = FloatName.s -> "float"
           [] AsciiLower(of_type.s) = CharName.s -> "char"
           [] OTHER -> "gen"

\* for i in range(len(generic_array)):
\*     generic_array[i] = <Kind>Array(self.__size[-1])
\* The container has at least one slot, so the first pass evaluates
\* of_type.lower(), size[-1] and the row constructor; every pass builds an
\* equal, separate row.
InitRows(g, size, of_type) ==
    LET Built(row) ==
            IF row.err # "ok" THEN Raise(row.err, row.msg, g)
            ELSE Ok(NoneV, [g EXCEPT !.elems =
                               [i \in 1..g.len |->
                                   BaseArray_setitem(g, IntV(i - 1), row.obj)
                                       .obj.elems[i]]])
    IN  IF of_type.t \notin {"str", "bytes"}
        THEN Raise("AttributeError", "object has no attribute 'lower'", g)
        ELSE IF Len(size.s) = 0
        THEN Raise("IndexError", "tuple index out of range", g)
        ELSE Built(Array_init(RowKind(of_type), IntV(size.s[Len(size.s)])))

MD_initiate_array(size, of_type) ==
    LET Allocated(g) == IF g.err # "ok" THEN g ELSE InitRows(g.obj, size, of_type)
    IN  Allocated(Array_init("gen", IntV(MD_get_total_number_of_1d_arrays(size))))

\* BaseMultiDimensionalArray.__init__ on a new object of class cls
BaseMD_init(cls, size, of_type) ==
    LET Initiated(g) ==
            IF g.err # "ok" THEN Raise(g.err, g.msg, NoObj)
            ELSE Ok(NoneV, [t |-> "mdarray", cls |-> cls, of_type |-> of_type,
                            size |-> size, nd |-> g.obj])
    IN  IF ~MD_is_valid_size(size)
        THEN Raise("ValueError", "Size should be a tuple with positive values.", NoObj)
        ELSE Initiated(MD_initiate_array(size, of_type))

MD_is_valid_index(m, index) ==
    /\ index.t = "tuple"
    /\ Len(m.size.s) = Len(index.s)
    /\ \A i \in 1..Len(m.size.s) : 0 <= index.s[i] /\ index.s[i] < m.size.s[i]

\* the same pass adding index[i] * group_elem before group_elem is divided
\* (a faulty variant: the code divides first)
PseudoIndexStep_stale(sizes, index, i, st) ==
    [group_elem |-> IntOfQuotient(st.group_elem, sizes[i + 1]),
     pseudo_index |-> st.pseudo_index + st.group_elem * index[i + 1]]

\* one pass of the loop of __calculate_pseudo_index, for i (counted from 0)
PseudoIndexStep(sizes, index, i, st) ==
    LET g == IntOfQuotient(st.group_elem, sizes[i + 1])
    IN  [group_elem |-> g, pseudo_index |-> st.pseudo_index + g * index[i + 1]]

RECURSIVE PseudoIndexLoop(_, _, _, _)
PseudoIndexLoop(sizes, index, i, st) ==
    IF i >= Len(sizes) - 1 THEN st.pseudo_index
    ELSE PseudoIndexLoop(sizes, index, i + 1, PseudoIndexStep(sizes, index, i, st))

\* a row index that looks at the first coordinate alone (a faulty variant)
MD_calculate_pseudo_index_first(sizes, index) == index[1]

MD_calculate_pseudo_index(sizes, index) ==
    PseudoIndexLoop(sizes, index, 0,
                    [group_elem |-> Product(AllButLast(sizes)), pseudo_index |-> 0])

\* self.__nd_array[pseudo_index][index[-1]]
BaseMD_getitem(m, index) ==
    LET Elem(r) == [r EXCEPT !.obj = m]
        Row(row) ==
            IF row.err # "ok" THEN Raise(row.err, row.msg, m)
            ELSE Elem(Array_getitem(row.ret, IntV(index.s[Len(index.s)])))
    IN  IF ~MD_is_valid_index(m, index)
        THEN Raise("ValueError", "Invalid index found", m)
        ELSE Row(BaseArray_getitem(m.nd,
                     IntV(MD_calculate_pseudo_index(m.size.s, index.s))))

\* self.__nd_array[pseudo_index][index[-1]] = value
BaseMD_setitem(m, index, value) ==
    LET Stored(p, r) == [r EXCEPT !.obj = [m EXCEPT !.nd.elems[p + 1] = r.obj]]
        Row(p, row) ==
            IF row.err # "ok" THEN Raise(row.err, row.msg, m)
            ELSE Stored(p, Array_setitem(row.ret, IntV(index.s[Len(index.s)]), value))
        At(p) == Row(p, BaseArray_getitem(m.nd, IntV(p)))
    IN  IF ~MD_is_valid_index(m, index)
        THEN Raise("ValueError", "Invalid index found", m)
        ELSE At(MD_calculate_pseudo_index(m.size.s, index.s))

BaseMD_len(m) ==
    Ok(IntV(MD_get_total_number_of_1d_arrays(m.size) * m.size.s[Len(m.size.s)]), m)

BaseMD_size(m) == Ok(m.size, m)

\* the least member of a non-empty set of positions
First(S) == CHOOSE i \in S : \A j \in S : i <= j

\* for i in range(len(array)): array[i] = value, on one row: the stores are
\* made in order and the first one that raises ends the loop.
SetRow(row, value) ==
    LET Failed(rs) == {i \in 1..row.len : rs[i].err # "ok"}
        Done(rs) ==
            IF Failed(rs) = {}
            THEN Ok(NoneV, [row EXCEPT !.elems =
                               [i \in 1..row.len |-> rs[i].obj.elems[i]]])
            ELSE Raise(rs[First(Failed(rs))].err, rs[First(Failed(rs))].msg,
                       [row EXCEPT !.elems =
                           [i \in 1..row.len |->
                               IF i < First(Failed(rs)) THEN rs[i].obj.elems[i]
                               ELSE row.elems[i]]])
    IN  Done([i \in 1..row.len |-> Array_setitem(row, IntV(i - 1), value)])

\* for array in self.__nd_array: <SetRow>.  The for statement draws the rows
\* with next() from the row container, which is its own iterator: it starts
\* at the container's cursor and leaves the cursor at 0 when it runs out; when
\* a row's loop raises, the cursor stays one past that row.
SetRows(nd, value) ==
    LET Failed(rows) == {i \in (nd.cur + 1)..nd.len : rows[i].err # "ok"}
        Done(rows) ==
            IF Failed(rows) = {}
            THEN Ok(NoneV, [nd EXCEPT !.cur = 0,
                                      !.elems = [i \in 1..nd.len |->
                                          IF i > nd.cur THEN rows[i].obj
                                          ELSE nd.elems[i]]])
            ELSE Raise(rows[First(Failed(rows))].err, rows[First(Failed(rows))].msg,
                       [nd EXCEPT !.cur = First(Failed(rows)),
                                  !.elems = [i \in 1..nd.len |->
                                      IF i > nd.cur /\ i <= First(Failed(rows))
                                      THEN rows[i].obj
                                      ELSE nd.elems[i]]])
    IN  Done([i \in 1..nd.len |-> SetRow(nd.elems[i], value)])

BaseMD_reset(m, default) ==
    LET Done(r) == [r EXCEPT !.obj = [m EXCEPT !.nd = r.obj]]
    IN  Done(SetRows(m.nd, default))

BaseMD_set_all_to(m, value) ==
    LET Done(r) == [r EXCEPT !.obj = [m EXCEPT !.nd = r.obj]]
    IN  Done(SetRows(m.nd, value))

---------------------------------------------------------------------------
(* multi_dim_array.py: the four subclasses. *)

GenericMD_reset(m, default) == BaseMD_reset(m, NoneV)

IntMD_reset(m, default) == BaseMD_reset(m, IntV(0))

FloatMD_reset(m, default) == BaseMD_reset(m, FloatV(0, 0))

CharMD_reset(m, default) == BaseMD_reset(m, BytesV(Utf8Encode(<<>>)))

\* CharMultiDimensionalArray.__init__: the base constructor, then self.reset()
CharMD_init(size) ==
    LET Reset(r) ==
            IF r.err # "ok" THEN Raise(r.err, r.msg, NoObj) ELSE Ok(NoneV, r.obj)
        Based(b) == IF b.err # "ok" THEN b ELSE Reset(CharMD_reset(b.obj, NoneV))
    IN  Based(BaseMD_init("char", size, CharName))

GenericMD_init(size) == BaseMD_init("gen", size, GenName)

IntMD_init(size) == BaseMD_init("int", size, IntName)

FloatMD_init(size) == BaseMD_init("float", size, FloatName)

\* the constructor of the class cls
MD_init(cls, size) ==
    CASE cls = "int" -> IntMD_init(size)
      [] cls = "float" -> FloatMD_init(size)
      [] cls = "char" -> CharMD_init(size)
      [] OTHER -> GenericMD_init(size)

IntMD_setitem(m, index, value) ==
    LET Done(r) ==
            IF r.err = "ValueError" THEN Raise("ValueError", "Value must be an Integer", r.obj)
            ELSE r
        Converted(c) ==
            IF c.err = "ValueError" THEN Raise("ValueError", "Value must be an Integer", m)
            ELSE IF c.err # "ok" THEN Raise(c.err, c.msg, m)
            ELSE Done(BaseMD_setitem(m, index, c.ret))
    IN  Converted(PyInt(value))

FloatMD_setitem(m, index, value) ==
    LET Done(r) ==
            IF r.err = "ValueError" THEN Raise("ValueError", "Value must be a Decimal Number", r.obj)
            ELSE r
        Converted(c) ==
            IF c.err = "ValueError" THEN Raise("ValueError", "Value must be a Decimal Number", m)
            ELSE IF c.err # "ok" THEN Raise(c.err, c.msg, m)
            ELSE Done(BaseMD_setitem(m, index, c.ret))
    IN  Converted(PyFloat(value))

CharMD_setitem(m, index, value) ==
    IF value.t # "str" THEN Raise("TypeError", "Value should be single Character", m)
    ELSE IF Len(value.s) # 1
    THEN Raise("TypeError", "Value should be single Character", m)
    ELSE BaseMD_setitem(m, index, BytesV(Utf8Encode(value.s)))

IntMD_set_all_to(m, value) ==
    LET Done(r) ==
            IF r.err = "ValueError" THEN Raise("ValueError", "Value must be an Integer", r.obj)
            ELSE r
        Converted(c) ==
            IF c.err = "ValueError" THEN Raise("ValueError", "Value must be an Integer", m)
            ELSE IF c.err # "ok" THEN Raise(c.err, c.msg, m)
            ELSE Done(BaseMD_set_all_to(m, c.ret))
    IN  Converted(PyInt(value))

FloatMD_set_all_to(m, value) ==
    LET Done(r) ==
            IF r.err = "ValueError" THEN Raise("ValueError", "Value must be a Decimal Number", r.obj)
            ELSE r
        Converted(c) ==
            IF c.err = "ValueError" THEN Raise("ValueError", "Value must be a Decimal Number", m)
            ELSE IF c.err # "ok" THEN Raise(c.err, c.msg, m)
            ELSE Done(BaseMD_set_all_to(m, c.ret))
    IN  Converted(PyFloat(value))

CharMD_set_all_to(m, value) ==
    IF Truthy(value) /\ (value.t # "str" \/ Len(value.s) # 1)
    THEN Raise("TypeError", "Value should be single Character", m)
    ELSE IF value.t # "str"
    THEN Raise("AttributeError", "object has no attribute 'encode'", m)
    ELSE BaseMD_set_all_to(m, BytesV(Utf8Encode(value.s)))

\* m[index], m[index] = value, m.reset(default), m.set_all_to(value) on an
\* n-D array of any of the four classes
MD_getitem(m, index) == BaseMD_getitem(m, index)

MD_setitem(m, index, value) ==
    CASE m.cls = "int" -> IntMD_setitem(m, index, value)
      [] m.cls = "float" -> FloatMD_setitem(m, index, value)
      [] m.cls = "char" -> CharMD_setitem(m, index, value)
      [] OTHER -> BaseMD_setitem(m, index, value)

MD_reset(m, default) ==
    CASE m.cls = "int" -> IntMD_reset(m, default)
      [] m.cls = "float" -> FloatMD_reset(m, default)
      [] m.cls = "char" -> CharMD_reset(m, default)
      [] OTHER -> GenericMD_reset(m, default)

MD_set_all_to(m, value) ==
    CASE m.cls = "int" -> IntMD_set_all_to(m, value)
      [] m.cls = "float" -> FloatMD_set_all_to(m, value)
      [] m.cls = "char" -> CharMD_set_all_to(m, value)
      [] OTHER -> BaseMD_set_all_to(m, value)

---------------------------------------------------------------------------
(* The 1-D array under test: the arguments the calls are offered. *)

Kinds == {"gen", "int", "float", "char"}

\* 2^31 + 5, which does not fit a c_int32
BigInt == IntB([hi |-> Half, lo |-> 5])

\* None, 5, 2^31 + 5, -2.5, "5", "bb", "", "\x00", "é"
Values ==
    { NoneV, IntV(5), BigInt, FloatV(-25, 1),
      StrV(<<53>>), StrV(<<98, 98>>), StrV(<<>>), StrV(<<0>>), StrV(<<233>>) }

\* the values written while iteration is studied: 5, "5"
IterValues == { IntV(5), StrV(<<53>>) }

\* sizes offered to the constructors: -1 .. MaxLen, 1.5, None
Sizes == {IntV(n) : n \in -1..MaxLen} \cup {FloatV(15, 1), NoneV}

\* indices offered to [] : -1 .. MaxLen, 0.5, None
Indices == {IntV(i) : i \in -1..MaxLen} \cup {FloatV(5, 1), NoneV}

NoCall == [op |-> "none", index |-> NoneV, value |-> NoneV,
           err |-> "ok", msg |-> "", ret |-> NoneV]

Call(op, index, value, r) ==
    [op |-> op, index |-> index, value |-> value,
     err |-> r.err, msg |-> r.msg, ret |-> r.ret]

\* A behaviour is a run of calls that go unexamined followed by the one call
\* under examination, whose arguments and outcome `last` then holds.
Examine(call) == /\ last = NoCall
                 /\ mlast = NoCall
                 /\ last' \in {NoCall, call}

ExamineMD(call) == /\ last = NoCall
                   /\ mlast = NoCall
                   /\ mlast' \in {NoCall, call}

NoCycle == [open |-> FALSE, idx |-> <<>>]

FlatIdle ==
    /\ fshape = <<>>
    /\ findex = <<>>
    /\ fstep = 0
    /\ fgroup = 0
    /\ fpseudo = 0

InitArr ==
    /\ arr = NoObj
    /\ last = NoCall
    /\ cycle = NoCycle
    /\ md = NoObj
    /\ mlast = NoCall
    /\ FlatIdle

\* a = GenericArray(size), IntArray(size), FloatArray(size) or CharArray(size)
ArrConstruct(kind, size) ==
    /\ arr = NoObj
    /\ md = NoObj
    /\ LET Outcome(r) ==
               /\ arr' = r.obj
               /\ Examine(Call("init", NoneV, size, r))
       IN  Outcome(Array_init(kind, size))
    /\ UNCHANGED <<cycle, md, mlast, fshape, findex, fstep, fgroup, fpseudo>>

\* a[index]
ArrGet(index) ==
    /\ arr # NoObj
    /\ LET Outcome(r) ==
               /\ arr' = r.obj
               /\ Examine(Call("get", index, NoneV, r))
       IN  Outcome(Array_getitem(arr, index))
    /\ UNCHANGED <<cycle, md, mlast, fshape, findex, fstep, fgroup, fpseudo>>

\* a[index] = value
ArrSet(index, value) ==
    /\ arr # NoObj
    /\ LET Outcome(r) ==
               /\ arr' = r.obj
               /\ Examine(Call("set", index, value, r))
       IN  Outcome(Array_setitem(arr, index, value))
    /\ UNCHANGED <<cycle, md, mlast, fshape, findex, fstep, fgroup, fpseudo>>

\* len(a)
ArrLen ==
    /\ arr # NoObj
    /\ LET Outcome(r) ==
               /\ arr' = r.obj
               /\ Examine(Call("len", NoneV, NoneV, r))
       IN  Outcome(BaseArray_len(arr))
    /\ UNCHANGED <<cycle, md, mlast, fshape, findex, fstep, fgroup, fpseudo>>

\* iter(a): a consumer (a for loop, list(a)) starts iterating; the array is
\* its own iterator
ArrIter ==
    /\ arr # NoObj
    /\ LET Outcome(r) ==
               /\ arr' = r.obj
               /\ Examine(Call("iter", NoneV, NoneV, Ok(NoneV, r.obj)))
       IN  Outcome(BaseArray_iter(arr))
    /\ cycle' = [open |-> TRUE, idx |-> <<>>]
    /\ UNCHANGED <<md, mlast, fshape, findex, fstep, fgroup, fpseudo>>

\* next(a).  cycle.idx collects the indices whose elements were yielded since
\* iteration was started, by iter(a) or by the first next(a) after the
\* previous iteration was exhausted.
ArrNext ==
    /\ arr # NoObj
    /\ LET Outcome(r) ==
               /\ arr' = r.obj
               /\ Examine(Call("next", IntV(arr.cur), NoneV, r))
               /\ cycle' = IF r.err # "ok" THEN [cycle EXCEPT !.open = FALSE]
                           ELSE IF cycle.open THEN [cycle EXCEPT !.idx = Append(@, arr.cur)]
                           ELSE [open |-> TRUE, idx |-> <<arr.cur>>]
       IN  Outcome(Array_next(arr))
    /\ UNCHANGED <<md, mlast, fshape, findex, fstep, fgroup, fpseudo>>

\* a.reset(default)
ArrReset(default) ==
    /\ arr # NoObj
    /\ LET Outcome(r) ==
               /\ arr' = r.obj
               /\ Examine(Call("reset", NoneV, default, r))
       IN  Outcome(Array_reset(arr, default))
    /\ UNCHANGED <<cycle, md, mlast, fshape, findex, fstep, fgroup, fpseudo>>

\* a.set_all_to(value)
ArrSetAllTo(value) ==
    /\ arr # NoObj
    /\ LET Outcome(r) ==
               /\ arr' = r.obj
               /\ Examine(Call("fill", NoneV, value, r))
       IN  Outcome(Array_set_all_to(arr, value))
    /\ UNCHANGED <<cycle, md, mlast, fshape, findex, fstep, fgroup, fpseudo>>

NextArr ==
    \/ \E kind \in Kinds, size \in Sizes : ArrConstruct(kind, size)
    \/ \E index \in Indices : ArrGet(index)
    \/ \E index \in Indices, value \in Values : ArrSet(index, value)
    \/ ArrLen
    \/ ArrNext
    \/ \E default \in Values : ArrReset(default)
    \/ \E value \in Values : ArrSetAllTo(value)

SpecArr == InitArr /\ [][NextArr]_vars

NextIter ==
    \/ \E kind \in Kinds, size \in Sizes : ArrConstruct(kind, size)
    \/ \E index \in Indices, value \in IterValues : ArrSet(index, value)
    \/ ArrIter
    \/ ArrNext

SpecIter == InitArr /\ [][NextIter]_vars

---------------------------------------------------------------------------
(* The n-D array under test. *)

\* None, "5", 2^31 + 5, "bb"
MDValues == { NoneV, StrV(<<53>>), BigInt, StrV(<<98, 98>>) }

Tuples(lo, hi, dims) == UNION {[1..n -> dims] : n \in lo..hi}

\* shapes offered to the constructors: every tuple of up to MaxRank dimensions
\* in 0..MaxDim that, when valid, has at most MaxCells elements; (-1, 2); the
\* list [2, 2]
Shapes ==
    {TupleV(q) : q \in {x \in Tuples(0, MaxRank, 0..MaxDim) :
                          MD_is_valid_size(TupleV(x)) => Product(x) <= MaxCells}}
    \cup {TupleV(<<-1, 2>>), ListV(<<2, 2>>)}

\* the coordinate tuples that are valid for shape sizes
ValidCoords(sizes) ==
    {c \in [1..Len(sizes) -> 0..MaxDim] : \A i \in 1..Len(sizes) : c[i] < sizes[i]}

\* indices offered to m[]: the valid ones; one past the end along each axis;
\* a negative coordinate; a tuple of the wrong length; a list
CoordsFor(m) ==
    IF m = NoObj THEN {}
    ELSE LET n == Len(m.size.s)
         IN  {TupleV(c) : c \in ValidCoords(m.size.s)}
             \cup {TupleV([i \in 1..n |-> IF i = k THEN m.size.s[k] ELSE 0]) :
                       k \in 1..n}
             \cup {TupleV([i \in 1..n |-> IF i = 1 THEN -1 ELSE 0]),
                   TupleV(<<0>>), ListV([i \in 1..n |-> 0])}

InitMD == InitArr

\* the class a constructor call names
ClassV(cls) == [t |-> "class", name |-> cls]

\* m = GenericMultiDimensionalArray(size), IntMultiDimensionalArray(size), ...
MDConstruct(cls, size) ==
    /\ md = NoObj
    /\ arr = NoObj
    /\ LET Outcome(r) ==
               /\ md' = r.obj
               /\ ExamineMD([Call("init", NoneV, size, r) EXCEPT !.index = ClassV(cls)])
       IN  Outcome(MD_init(cls, size))
    /\ UNCHANGED <<arr, last, cycle, fshape, findex, fstep, fgroup, fpseudo>>

\* m[index]
MDGet(index) ==
    /\ md # NoObj
    /\ LET Outcome(r) ==
               /\ md' = r.obj
               /\ ExamineMD(Call("get", index, NoneV, r))
       IN  Outcome(MD_getitem(md, index))
    /\ UNCHANGED <<arr, last, cycle, fshape, findex, fstep, fgroup, fpseudo>>

\* m[index] = value
MDSet(index, value) ==
    /\ md # NoObj
    /\ LET Outcome(r) ==
               /\ md' = r.obj
               /\ ExamineMD(Call("set", index, value, r))
       IN  Outcome(MD_setitem(md, index, value))
    /\ UNCHANGED <<arr, last, cycle, fshape, findex, fstep, fgroup, fpseudo>>

\* len(m)
MDLen ==
    /\ md # NoObj
    /\ LET Outcome(r) ==
               /\ md' = r.obj
               /\ ExamineMD(Call("len", NoneV, NoneV, r))
       IN  Outcome(BaseMD_len(md))
    /\ UNCHANGED <<arr, last, cycle, fshape, findex, fstep, fgroup, fpseudo>>

\* m.size()
MDSize ==
    /\ md # NoObj
    /\ LET Outcome(r) ==
               /\ md' = r.obj
               /\ ExamineMD(Call("size", NoneV, NoneV, r))
       IN  Outcome(BaseMD_size(md))
    /\ UNCHANGED <<arr, last, cycle, fshape, findex, fstep, fgroup, fpseudo>>

\* m.reset(default)
MDReset(default) ==
    /\ md # NoObj
    /\ LET Outcome(r) ==
               /\ md' = r.obj
               /\ ExamineMD(Call("reset", NoneV, default, r))
       IN  Outcome(MD_reset(md, default))
    /\ UNCHANGED <<arr, last, cycle, fshape, findex, fstep, fgroup, fpseudo>>

\* m.set_all_to(value)
MDSetAllTo(value) ==
    /\ md # NoObj
    /\ LET Outcome(r) ==
               /\ md' = r.obj
               /\ ExamineMD(Call("fill", NoneV, value, r))
       IN  Outcome(MD_set_all_to(md, value))
    /\ UNCHANGED <<arr, last, cycle, fshape, findex, fstep, fgroup, fpseudo>>

NextMD ==
    \/ \E cls \in Kinds, size \in Shapes : MDConstruct(cls, size)
    \/ \E index \in CoordsFor(md) : MDGet(index)
    \/ \E index \in CoordsFor(md), value \in MDValues : MDSet(index, value)
    \/ MDLen
    \/ MDSize
    \/ \E default \in MDValues : MDReset(default)
    \/ \E value \in MDValues : MDSetAllTo(value)

SpecMD == InitMD /\ [][NextMD]_vars

\* one object per behaviour, a 1-D array or an n-D array
Init == InitArr

Next == NextArr \/ NextMD

Spec == Init /\ [][Next]_vars

---------------------------------------------------------------------------
(* The flattening of coordinates, one loop pass at a time. *)

FlatShapes == Tuples(2, MaxFlatRank, 1..MaxFlatDim)

FlatCoords(sizes) ==
    {c \in [1..Len(sizes) -> 0..(MaxFlatDim - 1)] :
        \A i \in 1..Len(sizes) : c[i] < sizes[i]}

InitFlat ==
    /\ arr = NoObj
    /\ last = NoCall
    /\ cycle = NoCycle
    /\ md = NoObj
    /\ mlast = NoCall
    /\ fshape \in FlatShapes
    /\ findex \in FlatCoords(fshape)
    /\ fstep = 0
    /\ fgroup = MD_get_total_number_of_1d_arrays(TupleV(fshape))
    /\ fpseudo = 0

FlatStep ==
    /\ fstep < Len(fshape) - 1
    /\ LET st == PseudoIndexStep(fshape, findex, fstep,
                                 [group_elem |-> fgroup, pseudo_index |-> fpseudo])
       IN  /\ fgroup' = st.group_elem
           /\ fpseudo' = st.pseudo_index
    /\ fstep' = fstep + 1
    /\ UNCHANGED <<arr, last, cycle, md, mlast, fshape, findex>>

NextFlat == FlatStep

SpecFlat == InitFlat /\ [][NextFlat]_vars

---------------------------------------------------------------------------
(* What the calls are expected to do, in the words of the description:     *)
(* coercion per element type, the defaults, the well-formed shapes, the    *)
(* row-major formula.                                                      *)

\* the value a variant is described to keep of a value it accepts: none for
\* the opaque variant, a 32-bit signed integer, a double, the character
Coerce(kind, v) ==
    CASE kind = "int" -> IntB(Wrap32(PyInt(v).ret.v))
      [] kind = "float" -> PyFloat(v).ret
      [] OTHER -> v

\* the described default of each element type: null, 0, 0.0, empty
TypeDefault(kind) ==
    CASE kind = "int" -> IntV(0)
      [] kind = "float" -> FloatV(0, 0)
      [] kind = "char" -> StrV(<<>>)
      [] OTHER -> NoneV

\* a sequence of at least two positive integers
ValidShape(size) ==
    /\ size.t = "tuple"
    /\ Len(size.s) >= 2
    /\ \A i \in 1..Len(size.s) : size.s[i] > 0

\* sum over i of c_i * d_(i+1) * ... * d_(n-2), the dimensions counted from 0
RECURSIVE RowMajor(_, _, _)
RowMajor(sizes, c, i) ==
    IF i > Len(sizes) - 1 THEN 0
    ELSE c[i] * Product(SubSeq(sizes, i + 1, Len(sizes) - 1))
             + RowMajor(sizes, c, i + 1)

\* the slots of a 1-D array as a[i] reads them
Reads(a) == [i \in 1..a.len |-> Array_getitem(a, IntV(i - 1)).ret]

\* the loop of __calculate_pseudo_index has made its last pass
FlatDone == fstep = Len(fshape) - 1

---------------------------------------------------------------------------
(* Properties. *)

\* C1: for every shape of two or more positive dimensions and every
\* coordinate tuple within it, the row index the loop computes equals the
\* row-major sum, lies in 0 .. rowCount - 1, and together with the last
\* coordinate differs from that of every other coordinate tuple.
C1_Flattening ==
    FlatDone =>
        /\ fpseudo = RowMajor(fshape, findex, 1)
        /\ fpseudo = MD_calculate_pseudo_index(fshape, findex)
        /\ 0 <= fpseudo
        /\ fpseudo < MD_get_total_number_of_1d_arrays(TupleV(fshape))
        /\ \A c \in FlatCoords(fshape) :
              c # findex =>
                  <<MD_calculate_pseudo_index(fshape, c), c[Len(c)]>>
                      # <<fpseudo, findex[Len(findex)]>>

\* shape (2, 3, 2), coordinates (1, 2, 1): row 5 of 6
C1_Witness ==
    /\ FlatDone
    /\ fshape = <<2, 3, 2>>
    /\ findex = <<1, 2, 1>>
    /\ fpseudo = 5

\* C2: after m[c] = v succeeds on an n-D array, m[c] reads coerce(v) and
\* every other valid coordinate tuple reads what it read before.
C2_SetThenGet ==
    [][(mlast'.op = "set" /\ mlast'.err = "ok") =>
          /\ MD_getitem(md', mlast'.index)
                 = Ok(Coerce(md'.cls, mlast'.value), md')
          /\ \A c \in ValidCoords(md.size.s) :
                TupleV(c) # mlast'.index =>
                    MD_getitem(md', TupleV(c)).ret = MD_getitem(md, TupleV(c)).ret]_vars

\* an integer array of shape (2, 2, 1) after m[1, 1, 0] = 2^31 + 5, which
\* reads back as -2^31 + 5
C2_Witness ==
    /\ mlast.op = "set"
    /\ mlast.err = "ok"
    /\ md.cls = "int"
    /\ md.size = TupleV(<<2, 2, 1>>)
    /\ mlast.index = TupleV(<<1, 1, 0>>)
    /\ mlast.value = BigInt
    /\ MD_getitem(md, mlast.index).ret = IntB([hi |-> 0 - Half, lo |-> 5])
    /\ MD_getitem(md, TupleV(<<0, 1, 0>>)).ret = IntV(0)

\* C3: constructing an n-D array of any of the four element types with a
\* shape of two or more positive dimensions succeeds; the array has
\* product(shape[:-1]) rows of length shape[-1], its length is the product of
\* the dimensions, its shape the one given, and every coordinate reads the
\* element type's default.
C3_ConstructValid ==
    (mlast.op = "init" /\ ValidShape(mlast.value)) =>
        /\ mlast.err = "ok"
        /\ md.nd.len = Product(AllButLast(mlast.value.s))
        /\ \A i \in 1..md.nd.len :
              md.nd.elems[i].len = mlast.value.s[Len(mlast.value.s)]
        /\ BaseMD_len(md).ret = IntV(Product(mlast.value.s))
        /\ BaseMD_size(md).ret = mlast.value
        /\ \A c \in ValidCoords(mlast.value.s) :
              MD_getitem(md, TupleV(c)).ret = TypeDefault(mlast.index.name)

\* C4: constructing an n-D array with a shape that is not a sequence of two
\* or more positive integers fails with the invalid-size error (ValueError
\* in the code) and creates no array.
C4_ConstructInvalid ==
    (mlast.op = "init" /\ ~ValidShape(mlast.value)) =>
        /\ mlast.err = "ValueError"
        /\ md = NoObj

\* C5: after a[i] = v succeeds on a 1-D array, a[i] reads coerce(v), and the
\* other slots, the length and the cursor are as before.
C5_SetThenGet ==
    [][(last'.op = "set" /\ last'.err = "ok") =>
          /\ Array_getitem(arr', last'.index) = Ok(Coerce(arr'.kind, last'.value), arr')
          /\ arr'.len = arr.len
          /\ arr'.cur = arr.cur
          /\ \A j \in 1..arr.len :
                IntV(j - 1) # last'.index => arr'.elems[j] = arr.elems[j]]_vars

\* C6: a[i] and a[i] = v with an integer i outside 0 .. n - 1 fail with
\* IndexError, whatever v is.
C6_OutOfRange ==
    (/\ last.op \in {"get", "set"}
     /\ last.index.t = "int"
     /\ ~BigInRange(last.index.v, arr.len)) => last.err = "IndexError"

\* C7: whenever an iteration that was started on a 1-D array of length n
\* signals exhaustion, it has yielded the elements at 0, 1, .., n - 1, in
\* that order, and the cursor is back at 0.
C7_FullCycle ==
    (last.op = "next" /\ last.err = "StopIteration") =>
        /\ cycle.idx = [i \in 1..arr.len |-> i - 1]
        /\ arr.cur = 0

\* C8: a.set_all_to(v) fails exactly when a[i] = v at a valid i fails, with
\* the same exception; when it succeeds every slot reads coerce(v).
C8_FillAsSet ==
    last.op = "fill" =>
        /\ Array_setitem(arr, IntV(0), last.value).err = last.err
        /\ last.err = "ok" =>
              \A i \in 1..arr.len : Reads(arr)[i] = Coerce(arr.kind, last.value)

\* C9: a get, set or fill that fails, on a 1-D or an n-D array, leaves the
\* object (slots, length or shape, cursors, the cursor of the row container
\* included) exactly as it was.
C9_NoPartialMutation ==
    [][/\ (last'.op \in {"get", "set", "fill"} /\ last'.err # "ok") => arr' = arr
       /\ (mlast'.op \in {"get", "set", "fill"} /\ mlast'.err # "ok") => md' = md]_vars

\* CharArray(2); a[0] = "5"; a[1] = "bb" raises TypeError and the array
\* still reads ["5", ""]
C9_Witness ==
    /\ last.op = "set"
    /\ last.index = IntV(1)
    /\ last.value = StrV(<<98, 98>>)
    /\ last.err = "TypeError"
    /\ arr.kind = "char"
    /\ arr.len = 2
    /\ Reads(arr) = <<StrV(<<53>>), StrV(<<>>)>>

\* the slots an n-D array reads at its valid coordinates
ReadsMD(m) == {MD_getitem(m, TupleV(c)).ret : c \in ValidCoords(m.size.s)}

\* C10, as stated: reset(default) leaves every slot at the fixed default of
\* a typed variant (0, 0.0, empty) and at the caller's default on the opaque
\* variant, null when none is given; likewise every coordinate of an n-D
\* array.
C10_ResetHonoursDefault ==
    /\ last.op = "reset" =>
          /\ last.err = "ok"
          /\ \A i \in 1..arr.len :
                Reads(arr)[i] = IF arr.kind = "gen" THEN last.value
                                ELSE TypeDefault(arr.kind)
    /\ mlast.op = "reset" =>
          /\ mlast.err = "ok"
          /\ ReadsMD(md) = {IF md.cls = "gen" THEN mlast.value
                            ELSE TypeDefault(md.cls)}

\* C10, amended: reset(default) leaves every slot at the fixed default of the
\* variant (null, 0, 0.0, empty) whatever default the caller gives, the
\* opaque variant included; likewise every coordinate of an n-D array.
C10_ResetFixedDefault ==
    /\ last.op = "reset" =>
          /\ last.err = "ok"
          /\ \A i \in 1..arr.len : Reads(arr)[i] = TypeDefault(arr.kind)
    /\ mlast.op = "reset" =>
          /\ mlast.err = "ok"
          /\ ReadsMD(md) = {TypeDefault(md.cls)}

\* GenericArray(2) after reset(5): both slots read None
C10_Witness ==
    /\ last.op = "reset"
    /\ last.value = IntV(5)
    /\ last.err = "ok"
    /\ arr.kind = "gen"
    /\ arr.len = 2
    /\ Reads(arr) = <<NoneV, NoneV>>

====
